---- MODULE Spec2Model ----
(***************************************************************************)
(* A model of NAVGame.cpp: the world generation and grid path-finding core  *)
(* (generate_game_entities, build_graph, a_star_search, reconstruct_path),  *)
(* GameState, get_level_config, the enemies' attacks in main_run_level, and *)
(* the start menu and level loop of main.                                   *)
(*                                                                          *)
(* Grid cells are pairs <<x, y>>.  Costs are the program's float costs in   *)
(* exact tenths (1.0f is 10, 10.0f is 100, 0.1f is 1): two float sums of    *)
(* the same exact cost may differ in the last bit, which only adds to the   *)
(* ways a tie is broken.                                                    *)
(***************************************************************************)
EXTENDS Integers, Sequences, FiniteSets, TLC

VARIABLES
    pc,              \* position of the operation being run
    grid_size,       \* argument grid_size
    obstacle_count,  \* argument obstacle_count
    item_count,      \* argument item_count (clamped in place by the code)
    enemy_count,     \* argument enemy_count
    main_block_hp,   \* argument main_block_hp
    forbidden,       \* generate_game_entities: the local set forbidden
    player_pos,      \* generate_game_entities: player_pos
    enemy_pos_list,  \* generate_game_entities: enemy_pos_list
    main_item_pos,   \* generate_game_entities: main_item_pos
    obstacles,       \* the obstacle map, GridPos -> Obstacle
    items,           \* the item vector
    graph,           \* the Graph build_graph returned: edges and weights
    live_obstacles,  \* a_star_search: the argument obstacles
    start,           \* a_star_search / reconstruct_path: start
    goal,            \* a_star_search / reconstruct_path: goal
    frontier,        \* a_star_search: the priority queue, entries <<priority, node>>
    came_from,       \* a_star_search: came_from
    cost_so_far,     \* a_star_search: cost_so_far
    current,         \* reconstruct_path: current
    path,            \* reconstruct_path: path
    destructible_count,  \* GameState::destructible_count
    call,            \* the member function of GameState called last, and its argument
    ret,             \* what that call returned
    level,           \* get_level_config: the argument level
    config,          \* the LevelConfig get_level_config returned
    level_enemies,   \* main_run_level: enemies, each with its attack and its timer
    attacks,         \* main_run_level: the attacks made in the last tick
    game_result,     \* main_run_level: the result returned, "" while running
    current_level,   \* main: current_level
    enemy_cards_collected,  \* main: enemy_cards_collected
    chosen_enemy,    \* main: chosen_enemy
    reward_choices,  \* main: reward_choices
    result,          \* main: result.result, "" before the first level has been run
    chosen,          \* show_success_screen / select_enemy_screen: chosen
    quit_seen        \* an SDL_QUIT event has been polled by a screen of main's flow

genVars == <<obstacle_count, item_count, enemy_count, main_block_hp,
             forbidden, player_pos, enemy_pos_list, main_item_pos, items>>

searchVars == <<live_obstacles, start, goal, frontier, came_from, cost_so_far>>

pathVars == <<graph, searchVars, current, path>>

stateVars == <<destructible_count, call, ret>>

configVars == <<level, config>>

levelVars == <<level_enemies, attacks, game_result>>

mainVars == <<current_level, enemy_cards_collected, chosen_enemy, reward_choices,
              result, chosen, quit_seen>>

playVars == <<stateVars, configVars, levelVars, mainVars>>

vars == <<pc, grid_size, obstacles, genVars, pathVars, playVars>>

(***************************************************************************)
(* Program constants                                                        *)
(***************************************************************************)
OBSTACLE_HEALTH == 20
ENEMY_ATTACK == 10
MIN_DISTANCE == 5

(***************************************************************************)
(* Bounds of the model                                                      *)
(***************************************************************************)
MaxEnemyCount == 1      \* enemy_count ranges over 0..MaxEnemyCount
MaxObstacleCount == 2   \* obstacle_count ranges over 0..MaxObstacleCount, and the crowded counts
MaxItemCount == 2       \* item_count ranges over 0..MaxItemCount

MainBlockHps == {10, 15}   \* block_hp of the two BASE_LEVELS

\* the grid generate_game_entities is run on: the smallest one on which an
\* enemy can stand MIN_DISTANCE away from the player (2 * (n - 1) >= MIN_DISTANCE),
\* and on which a cell off the outer ring is always left for the goal
GenGridSize == (MIN_DISTANCE + 1) \div 2 + 1

NoPos == <<-1, -1>>        \* a local not yet assigned

(***************************************************************************)
(* Helpers                                                                  *)
(***************************************************************************)
Abs(v) == IF v < 0 THEN -v ELSE v

MinOf(a, b) == IF a < b THEN a ELSE b

MaxOf(a, b) == IF a > b THEN a ELSE b

\* |a.first - b.first| + |a.second - b.second|
Manhattan(a, b) == Abs(a[1] - b[1]) + Abs(a[2] - b[2])

\* all_positions of a grid of size n
AllPositions(n) == (0..(n - 1)) \X (0..(n - 1))

\* the four corners inserted into forbidden
Corners(n) == {<<0, 0>>, <<0, n - 1>>, <<n - 1, 0>>, <<n - 1, n - 1>>}

is_not_edge(pos, n) ==
    pos[1] >= 1 /\ pos[1] < n - 1 /\ pos[2] >= 1 /\ pos[2] < n - 1

\* Obstacle(gx, gy, type, hp); is_main_block defaults to false
Obstacle(t, hp) == [type |-> t, health |-> hp, is_main_block |-> FALSE]

\* Item(gx, gy, main_item)
Item(pos, main_item) == [pos |-> pos, is_main |-> main_item]

\* unordered_map::emplace: inserts only when the key is absent
Emplace(m, k, v) == IF k \in DOMAIN m THEN m ELSE (k :> v) @@ m

EmptyMap == [k \in {} |-> 0]

\* the sequences std::shuffle followed by resize(n) can leave: the first n
\* elements of a permutation of S (n <= |S|)
RECURSIVE ShufflePrefixes(_, _)
ShufflePrefixes(S, n) ==
    IF n = 0 THEN {<<>>}
    ELSE UNION {{<<c>> \o s : s \in ShufflePrefixes(S \ {c}, n - 1)} : c \in S}

Range(s) == {s[i] : i \in 1..Len(s)}

\* the subsets of S with exactly n elements
SubsetsOfSize(S, n) == {T \in SUBSET S : Cardinality(T) = n}

\* no member function of GameState has been called
NoCall == [op |-> "none", hit |-> {}, pos |-> NoPos]

\* no LevelConfig has been returned
NoConfig ==
    [obstacle_count |-> 0, item_count |-> 0, enemy_count |-> 0, block_hp |-> 0,
     enemy_types |-> <<>>, reward |-> "none"]

\* no GameState is constructed
StateIdle ==
    /\ destructible_count = 0
    /\ call = NoCall
    /\ ret = FALSE

\* get_level_config is not run
ConfigIdle ==
    /\ level = 0
    /\ config = NoConfig

\* main_run_level is not run
LevelIdle ==
    /\ level_enemies = <<>>
    /\ attacks = <<>>
    /\ game_result = ""

\* main has not reached its loop
MainIdle ==
    /\ current_level = 0
    /\ enemy_cards_collected = <<>>
    /\ chosen_enemy = ""
    /\ reward_choices = <<>>
    /\ result = ""
    /\ chosen = ""
    /\ quit_seen = FALSE

\* the variables of the game while no level is played
PlayIdle ==
    /\ StateIdle
    /\ ConfigIdle
    /\ LevelIdle
    /\ MainIdle

(***************************************************************************)
(* generate_game_entities                                                   *)
(***************************************************************************)
\* the variables of the path-finding functions while they are not run
PathIdle ==
    /\ graph = [edges |-> EmptyMap, weights |-> EmptyMap]
    /\ start = NoPos
    /\ goal = NoPos
    /\ frontier = {}
    /\ came_from = EmptyMap
    /\ cost_so_far = EmptyMap
    /\ current = NoPos
    /\ path = <<>>

\* the obstacle counts tried: the small ones, one that fills the grid, and
\* one that asks for more obstacles than the grid has cells
ObstacleCounts ==
    (0..MaxObstacleCount)
    \cup {GenGridSize * GenGridSize - 5, GenGridSize * GenGridSize + 4}

InitGen ==
    /\ pc = "pick"
    /\ grid_size = GenGridSize
    /\ obstacle_count \in ObstacleCounts
    /\ item_count \in 0..MaxItemCount
    /\ enemy_count \in 0..MaxEnemyCount
    /\ main_block_hp \in MainBlockHps
    /\ forbidden = Corners(grid_size)
    /\ player_pos = <<0, 0>>
    /\ enemy_pos_list = <<>>
    /\ main_item_pos = NoPos
    /\ obstacles = EmptyMap
    /\ items = <<>>
    /\ live_obstacles = EmptyMap
    /\ PathIdle
    /\ PlayIdle

\* BatchOk that passes every batch
BatchOkAlways(p, enemies, min_distance) == TRUE

\* BatchOk with the comparison one too lenient
BatchOkOffByOne(p, enemies, min_distance) ==
    \A i \in 1..Len(enemies) : ~(Manhattan(p, enemies[i]) < min_distance - 1)

\* the test of one sampled batch: every enemy at Manhattan distance >= min_distance
BatchOk(p, enemies, min_distance) ==
    \A i \in 1..Len(enemies) : ~(Manhattan(p, enemies[i]) < min_distance)

\* one iteration of the while (true) of pick_valid_positions whose batch fails
\* the distance test: the batch lives in locals of the lambda that the next
\* iteration overwrites, nothing outside the loop changes and the loop goes
\* round again
PickRejected ==
    /\ pc = "pick"
    /\ \E picks \in ShufflePrefixes(AllPositions(grid_size), enemy_count + 1) :
          ~BatchOk(picks[1], Tail(picks), MIN_DISTANCE)
    /\ UNCHANGED vars

\* the iteration whose batch passes: pick_valid_positions returns and the
\* caller inserts the player and the enemies into forbidden
PickAccepted ==
    /\ pc = "pick"
    /\ \E picks \in ShufflePrefixes(AllPositions(grid_size), enemy_count + 1) :
          /\ BatchOk(picks[1], Tail(picks), MIN_DISTANCE)
          /\ player_pos' = picks[1]
          /\ enemy_pos_list' = Tail(picks)
          /\ forbidden' = forbidden \cup {picks[1]} \cup Range(Tail(picks))
    /\ pc' = "main_item"
    /\ UNCHANGED <<grid_size, obstacle_count, item_count, enemy_count,
                   main_block_hp, main_item_pos, obstacles, items, pathVars, playVars>>

\* MainItemCandidates without the is_not_edge test
MainItemCandidatesAnyCell ==
    {p \in AllPositions(grid_size) : p \notin forbidden}

MainItemCandidates ==
    {p \in AllPositions(grid_size) : p \notin forbidden /\ is_not_edge(p, grid_size)}

\* the goal cell and its guarding main block; on the grids of the model
\* main_item_candidates is never empty, so the index is always in range
PlaceMainItem ==
    /\ pc = "main_item"
    /\ \E g \in MainItemCandidates :
          /\ main_item_pos' = g
          /\ forbidden' = forbidden \cup {g}
          /\ obstacles' = Emplace(EmptyMap, g,
                 [Obstacle("Destructible", main_block_hp) EXCEPT !.is_main_block = TRUE])
    /\ pc' = "obstacles"
    /\ UNCHANGED <<grid_size, obstacle_count, item_count, enemy_count,
                   main_block_hp, player_pos, enemy_pos_list, items, pathVars, playVars>>

RestCandidates == AllPositions(grid_size) \ forbidden

\* rest_count after the two clamps
RestCount ==
    LET r0 == obstacle_count - 1
        r1 == IF r0 < 0 THEN 0 ELSE r0
    IN  IF r1 > Cardinality(RestCandidates) THEN Cardinality(RestCandidates) ELSE r1

\* DestructibleCount with a ratio of one half
DestructibleCountHalf(rest_count) == rest_count \div 2

\* static_cast<int>(rest_count * DESTRUCTIBLE_RATIO), DESTRUCTIBLE_RATIO = 0.3f
DestructibleCount(rest_count) == (rest_count * 3) \div 10

RECURSIVE EmplaceAll(_, _, _)
EmplaceAll(m, S, v) ==
    IF S = {} THEN m
    ELSE LET k == CHOOSE c \in S : TRUE
         IN  EmplaceAll(Emplace(m, k, v), S \ {k}, v)

\* the other obstacles: the first destructible_count cells of the shuffled
\* prefix are Destructible, the rest Indestructible
PlaceObstacles ==
    /\ pc = "obstacles"
    /\ \E S \in SubsetsOfSize(RestCandidates, RestCount) :
       \E D \in SubsetsOfSize(S, DestructibleCount(RestCount)) :
          /\ obstacles' = EmplaceAll(
                 EmplaceAll(obstacles, D, Obstacle("Destructible", OBSTACLE_HEALTH)),
                 S \ D, Obstacle("Indestructible", 0))
          /\ forbidden' = forbidden \cup S
    /\ pc' = "items"
    /\ UNCHANGED <<grid_size, obstacle_count, item_count, enemy_count,
                   main_block_hp, player_pos, enemy_pos_list, main_item_pos, items,
                   pathVars, playVars>>

\* ItemCandidates that forgets the cells the obstacles took
ItemCandidatesOverObstacles ==
    AllPositions(grid_size) \ (forbidden \ (DOMAIN obstacles \ {main_item_pos}))

ItemCandidates == AllPositions(grid_size) \ forbidden

\* item_count after the two clamps
ClampedItemCount ==
    LET c1 == IF item_count < 1 THEN 1 ELSE item_count
    IN  IF c1 > Cardinality(ItemCandidates) THEN Cardinality(ItemCandidates) ELSE c1

\* the items are placed and the function returns
PlaceItems ==
    /\ pc = "items"
    /\ ClampedItemCount - 1 >= 0
    /\ item_count' = ClampedItemCount
    /\ \E cells \in ShufflePrefixes(ItemCandidates, ClampedItemCount - 1) :
          items' = [i \in 1..Len(cells) |-> Item(cells[i], FALSE)]
                   \o <<Item(main_item_pos, TRUE)>>
    /\ pc' = "returned"
    /\ UNCHANGED <<grid_size, obstacle_count, enemy_count, main_block_hp,
                   forbidden, player_pos, enemy_pos_list, main_item_pos, obstacles,
                   pathVars, playVars>>

\* no candidate cell is left: item_count is clamped to 0 and
\* resize(static_cast<size_t>(-1)) throws std::length_error
PlaceItemsThrows ==
    /\ pc = "items"
    /\ ClampedItemCount - 1 < 0
    /\ item_count' = ClampedItemCount
    /\ pc' = "threw"
    /\ UNCHANGED <<grid_size, obstacle_count, enemy_count, main_block_hp,
                   forbidden, player_pos, enemy_pos_list, main_item_pos, obstacles, items,
                   pathVars, playVars>>

NextGen ==
    \/ PickRejected
    \/ PickAccepted
    \/ PlaceMainItem
    \/ PlaceObstacles
    \/ PlaceItems
    \/ PlaceItemsThrows

SpecGen == InitGen /\ [][NextGen]_vars

\* pick_valid_positions alone, with at least one enemy, on the grid of InitGen
\* and on the next smaller one, on which no two cells are MIN_DISTANCE apart
InitPick ==
    /\ pc = "pick"
    /\ grid_size \in {GenGridSize - 1, GenGridSize}
    /\ obstacle_count \in 0..MaxObstacleCount
    /\ item_count \in 0..MaxItemCount
    /\ enemy_count \in 1..MaxEnemyCount
    /\ main_block_hp \in MainBlockHps
    /\ forbidden = Corners(grid_size)
    /\ player_pos = <<0, 0>>
    /\ enemy_pos_list = <<>>
    /\ main_item_pos = NoPos
    /\ obstacles = EmptyMap
    /\ items = <<>>
    /\ live_obstacles = EmptyMap
    /\ PathIdle
    /\ PlayIdle

NextPick ==
    \/ PickRejected
    \/ PickAccepted

SpecPick == InitPick /\ [][NextPick]_vars

(***************************************************************************)
(* build_graph                                                              *)
(***************************************************************************)
\* obstacles.find(c) != end() && ->second.type == t
HasType(obs, c, t) == c \in DOMAIN obs /\ obs[c].type = t

\* the order of dirs in build_graph
Dirs == << <<-1, 0>>, <<1, 0>>, <<0, -1>>, <<0, 1>> >>

InBounds(c, n) == ~(c[1] < 0 \/ c[2] < 0 \/ c[1] >= n \/ c[2] >= n)

\* CanLink that does not look for an Indestructible obstacle at the neighbor
CanLinkAnyNeighbor(n, obs, nb) == InBounds(nb, n)

\* the neighbor gets an edge: in bounds and not Indestructible
CanLink(n, obs, nb) == InBounds(nb, n) /\ ~HasType(obs, nb, "Indestructible")

\* EdgeWeight decided by the cell the edge leaves
EdgeWeightBySource(obs, a, b) == IF HasType(obs, a, "Destructible") THEN 100 ELSE 10

\* EdgeWeight that is 10.0 when either end is Destructible
EdgeWeightEitherEnd(obs, a, b) ==
    IF HasType(obs, a, "Destructible") \/ HasType(obs, b, "Destructible") THEN 100 ELSE 10

\* weight of the edge a -> b: 10.0f into a Destructible cell, else 1.0f
EdgeWeight(obs, a, b) == IF HasType(obs, b, "Destructible") THEN 100 ELSE 10

\* the neighbors pushed to edges[c], in the order of dirs
NeighborsOf(n, obs, c) ==
    LET cand == [i \in 1..4 |-> <<c[1] + Dirs[i][1], c[2] + Dirs[i][2]>>]
        Keep(nb) == CanLink(n, obs, nb)
    IN  SelectSeq(cand, Keep)

\* the cells the outer loops do not skip
Sources(n, obs) == {c \in AllPositions(n) : ~HasType(obs, c, "Indestructible")}

build_graph(n, obs) ==
    LET linked == {c \in Sources(n, obs) : NeighborsOf(n, obs, c) # <<>>}
        pairs == UNION {{<<c, nb>> : nb \in Range(NeighborsOf(n, obs, c))} : c \in linked}
    IN  [edges |-> [c \in linked |-> NeighborsOf(n, obs, c)],
         weights |-> [e \in pairs |-> EdgeWeight(obs, e[1], e[2])]]

\* Graph::neighbors
GraphNeighbors(g, node) == IF node \in DOMAIN g.edges THEN g.edges[node] ELSE <<>>

\* Graph::cost; the infinity of a missing edge is never read, since
\* a_star_search asks only for edges it took from Graph::neighbors
GraphCost(g, a, b) == g.weights[<<a, b>>]

(***************************************************************************)
(* a_star_search and reconstruct_path                                       *)
(***************************************************************************)
\* std::ceil(h / static_cast<float>(d)) for d > 0
CeilDiv(h, d) == -((-h) \div d)

\* heuristic scaled once too often
HeuristicOverestimate(a, b) == 30 * Manhattan(a, b)

\* heuristic(a, b), in tenths
Heuristic(a, b) == 10 * Manhattan(a, b)

\* StepCost that trusts the graph's weight for a Destructible neighbor
StepCostStatic(g, live, cur, nb) == GraphCost(g, cur, nb)

\* new_cost - cost_so_far[current] for a neighbor that is not skipped
StepCost(g, live, cur, nb) ==
    IF HasType(live, nb, "Destructible")
    THEN 10 + CeilDiv(live[nb].health, ENEMY_ATTACK) * 1
    ELSE GraphCost(g, cur, nb)

\* Skipped that never skips
SkippedNever(live, nb) == FALSE

\* the neighbor is passed over: it holds an Indestructible obstacle
Skipped(live, nb) == HasType(live, nb, "Indestructible")

\* map[k] = v
Put(m, k, v) == (k :> v) @@ m

\* the body of the for loop over the neighbors, for one neighbor; st holds
\* frontier, came_from and cost_so_far
Relax(st, g, live, cur, nb, gl) ==
    IF Skipped(live, nb) THEN st
    ELSE LET new_cost == st.cost_so_far[cur] + StepCost(g, live, cur, nb)
         IN  IF nb \notin DOMAIN st.cost_so_far \/ new_cost < st.cost_so_far[nb]
             THEN [frontier |-> st.frontier \cup {<<new_cost + Heuristic(gl, nb), nb>>},
                   came_from |-> Put(st.came_from, nb, cur),
                   cost_so_far |-> Put(st.cost_so_far, nb, new_cost)]
             ELSE st

RECURSIVE RelaxAll(_, _, _, _, _, _, _)
RelaxAll(st, g, live, cur, nbs, i, gl) ==
    IF i > Len(nbs) THEN st
    ELSE RelaxAll(Relax(st, g, live, cur, nbs[i], gl), g, live, cur, nbs, i + 1, gl)

\* the entries frontier.top() may return: any entry of least priority.  A
\* cell is pushed only with a cost lower than every cost it had before, so no
\* entry is ever pushed twice and the queue is a set of entries
TopEntries == {e \in frontier : \A f \in frontier : e[1] <= f[1]}

(***************************************************************************)
(* The layouts and queries the path-finding functions are run on            *)
(***************************************************************************)
PathGridSize == 3      \* side of the small grids
MaxObstacles == 2      \* obstacles on a small grid
MaxStale == 1          \* cells whose obstacle changed after the graph was built

PathHealths == {5, 15}  \* health of the Destructible obstacles of a small grid
StaleHealth == 15       \* health of the Destructible obstacles of a changed map

ObstacleKinds ==
    {Obstacle("Indestructible", 0)} \cup {Obstacle("Destructible", h) : h \in PathHealths}

\* the obstacle maps with at most k obstacles, of the given kinds, on the
\* cells of an n-grid
LayoutsOf(kinds, n, k) ==
    UNION {[S -> kinds] : S \in {T \in SUBSET AllPositions(n) : Cardinality(T) <= k}}

Layouts(n, k) == LayoutsOf(ObstacleKinds, n, k)

\* the cells on which two obstacle maps differ
DiffCells(n, a, b) ==
    {c \in AllPositions(n) :
        \/ (c \in DOMAIN a) # (c \in DOMAIN b)
        \/ c \in DOMAIN a /\ c \in DOMAIN b /\ a[c] # b[c]}

\* the example of the specification: a 6x6 grid, the row y = 3 Indestructible
\* but for (3, 3), Destructible with health 5; from (3, 0) to (3, 5)
Example ==
    [grid_size |-> 6, wall_row |-> 3, gap |-> <<3, 3>>, gap_health |-> 5,
     start |-> <<3, 0>>, goal |-> <<3, 5>>]

ExampleGridSize == Example.grid_size

ExampleObstacles ==
    [c \in {<<x, Example.wall_row>> : x \in 0..(Example.grid_size - 1)} |->
        IF c = Example.gap THEN Obstacle("Destructible", Example.gap_health)
        ELSE Obstacle("Indestructible", 0)]

\* the variables of generate_game_entities while it is not run
GenIdle ==
    /\ obstacle_count = 0
    /\ item_count = 0
    /\ enemy_count = 0
    /\ main_block_hp = 0
    /\ forbidden = {}
    /\ player_pos = NoPos
    /\ enemy_pos_list = <<>>
    /\ main_item_pos = NoPos
    /\ items = <<>>

\* the searches of InitPath are given the map the graph was built from
InitPath ==
    /\ pc = "build"
    /\ \/ /\ grid_size = PathGridSize
          /\ obstacles \in Layouts(PathGridSize, MaxObstacles)
       \/ /\ grid_size = ExampleGridSize
          /\ obstacles = ExampleObstacles
    /\ live_obstacles = obstacles
    /\ GenIdle
    /\ PathIdle
    /\ PlayIdle

\* the pairs of a map the graph is built from and a map the search is given
\* that hold obstacles on at most k cells between them: the obstacles changed
\* between the two calls
StaleKinds == {Obstacle("Indestructible", 0), Obstacle("Destructible", StaleHealth)}

StalePairs(n, k) ==
    UNION {{<<b, m>> : m \in {l \in LayoutsOf(StaleKinds, n, k) :
                                   Cardinality(DOMAIN l \cup DOMAIN b) <= k}}
           : b \in LayoutsOf(StaleKinds, n, k)}

\* the searches of InitStale are given a map that may differ from the one
\* the graph was built from
InitStale ==
    /\ pc = "build"
    /\ grid_size = PathGridSize
    /\ \E pr \in StalePairs(PathGridSize, MaxStale) :
          /\ obstacles = pr[1]
          /\ live_obstacles = pr[2]
    /\ GenIdle
    /\ PathIdle
    /\ PlayIdle

\* build_graph(grid_size, obstacles)
BuildGraph ==
    /\ pc = "build"
    /\ graph' = build_graph(grid_size, obstacles)
    /\ pc' = "built"
    /\ UNCHANGED <<grid_size, obstacles, genVars, searchVars, current, path, playVars>>

\* one start cell for each orbit of the symmetries of the square: the
\* layouts tried are closed under them
Starts(n) == {c \in AllPositions(n) : c[1] <= c[2] /\ 2 * c[2] <= n - 1}

\* the queries: on a small grid from each start to every cell, on the
\* example's grid the example's pair
Queries ==
    IF grid_size = ExampleGridSize THEN {<<Example.start, Example.goal>>}
    ELSE Starts(grid_size) \X AllPositions(grid_size)

\* a_star_search up to its while loop
AStarBegin ==
    /\ pc = "built"
    /\ \E q \in Queries :
          /\ start' = q[1]
          /\ goal' = q[2]
          /\ frontier' = {<<0, q[1]>>}
          /\ came_from' = Put(EmptyMap, q[1], q[1])
          /\ cost_so_far' = Put(EmptyMap, q[1], 0)
    /\ pc' = "search"
    /\ UNCHANGED <<grid_size, obstacles, genVars, graph, live_obstacles, current, path, playVars>>

\* one iteration of the while loop that pops a cell other than goal and
\* relaxes its neighbors
AStarExpand ==
    /\ pc = "search"
    /\ \E e \in TopEntries :
          /\ e[2] # goal
          /\ LET st == RelaxAll([frontier |-> frontier \ {e},
                                 came_from |-> came_from,
                                 cost_so_far |-> cost_so_far],
                                graph, live_obstacles, e[2],
                                GraphNeighbors(graph, e[2]), 1, goal)
             IN  /\ frontier' = st.frontier
                 /\ came_from' = st.came_from
                 /\ cost_so_far' = st.cost_so_far
    /\ UNCHANGED <<pc, grid_size, obstacles, genVars, graph, live_obstacles,
                   start, goal, current, path, playVars>>

\* the iteration that pops goal: break
AStarGoalPopped ==
    /\ pc = "search"
    /\ \E e \in TopEntries :
          /\ e[2] = goal
          /\ frontier' = frontier \ {e}
    /\ pc' = "searched"
    /\ UNCHANGED <<grid_size, obstacles, genVars, graph, live_obstacles,
                   start, goal, came_from, cost_so_far, current, path, playVars>>

\* the loop ends on an empty frontier
AStarExhausted ==
    /\ pc = "search"
    /\ frontier = {}
    /\ pc' = "searched"
    /\ UNCHANGED <<grid_size, obstacles, genVars, pathVars, playVars>>

\* NoPathResult that returns the empty path
NoPathResultEmpty(s) == <<>>

\* the path returned when goal was never recorded: path.push_back(start)
NoPathResult(s) == <<s>>

\* reconstruct_path: goal was never recorded, the path is [start]
ReconstructNoPath ==
    /\ pc = "searched"
    /\ goal \notin DOMAIN came_from
    /\ path' = NoPathResult(start)
    /\ pc' = "done"
    /\ UNCHANGED <<grid_size, obstacles, genVars, graph, searchVars, current, playVars>>

\* reconstruct_path: goal was recorded, the walk back starts at goal
ReconstructBegin ==
    /\ pc = "searched"
    /\ goal \in DOMAIN came_from
    /\ current' = goal
    /\ path' = <<>>
    /\ pc' = "walk"
    /\ UNCHANGED <<grid_size, obstacles, genVars, graph, searchVars, playVars>>

\* one iteration of while (current != start); came_from.at throws
\* std::out_of_range for a cell that was never recorded
ReconstructStep ==
    /\ pc = "walk"
    /\ current # start
    /\ path' = Append(path, current)
    /\ IF current \in DOMAIN came_from
       THEN current' = came_from[current] /\ pc' = pc
       ELSE current' = current /\ pc' = "threw"
    /\ UNCHANGED <<grid_size, obstacles, genVars, graph, searchVars, playVars>>

\* Reverse that leaves the sequence as it is
ReverseNot(s) == s

\* std::reverse(path.begin(), path.end())
Reverse(s) == [i \in 1..Len(s) |-> s[Len(s) + 1 - i]]

\* the loop is left: start is pushed and the path reversed
ReconstructFinish ==
    /\ pc = "walk"
    /\ current = start
    /\ path' = Reverse(Append(path, start))
    /\ pc' = "done"
    /\ UNCHANGED <<grid_size, obstacles, genVars, graph, searchVars, current, playVars>>

NextPath ==
    \/ BuildGraph
    \/ AStarBegin
    \/ AStarExpand
    \/ AStarGoalPopped
    \/ AStarExhausted
    \/ ReconstructNoPath
    \/ ReconstructBegin
    \/ ReconstructStep
    \/ ReconstructFinish

SpecPath == InitPath /\ [][NextPath]_vars

SpecStale == InitStale /\ [][NextPath]_vars

\* the layouts that only wall cells off: at most MaxObstacles Indestructible
\* obstacles on a small grid, the search given the map the graph was built from
InitWalled ==
    /\ pc = "build"
    /\ grid_size = PathGridSize
    /\ obstacles \in LayoutsOf({Obstacle("Indestructible", 0)}, PathGridSize, MaxObstacles)
    /\ live_obstacles = obstacles
    /\ GenIdle
    /\ PathIdle
    /\ PlayIdle

\* the functions are sequential code: a call that can take a step takes it
SpecWalled == InitWalled /\ [][NextPath]_vars /\ WF_vars(NextPath)

(***************************************************************************)
(* GameState                                                                *)
(***************************************************************************)
StateGridSize == 2       \* side of the grid the GameStates are laid out on
MaxStateObstacles == 2   \* obstacles of a GameState
MaxStateItems == 2       \* items of a GameState

\* GameState::count_destructible_obstacles
count_destructible_obstacles(obs) ==
    Cardinality({c \in DOMAIN obs : obs[c].type = "Destructible"})

\* GateBlocked that never finds a main block
GateBlockedNever(obs) == FALSE

\* gate_blocked: some obstacle of the map has is_main_block
GateBlocked(obs) == \E c \in DOMAIN obs : obs[c].is_main_block

\* items.erase(it), it at index i
Erase(s, i) == [j \in 1..(Len(s) - 1) |-> IF j < i THEN s[j] ELSE s[j + 1]]

\* GameState::collect_item; hit is the set of indices of the items whose rect
\* intersects player_rect, the loop stops at the first of them
collect_item(its, obs, hit) ==
    IF hit = {} THEN [items |-> its, ret |-> FALSE]
    ELSE LET it == CHOOSE i \in hit : \A j \in hit : i <= j
         IN  IF its[it].is_main /\ GateBlocked(obs)
             THEN [items |-> its, ret |-> FALSE]
             ELSE [items |-> Erase(its, it), ret |-> TRUE]

\* Decrement that does not look at the type of the obstacle
DecrementAlways(ob, dc) == dc - 1

\* if (it->second.type == "Destructible") --destructible_count
Decrement(ob, dc) == IF ob.type = "Destructible" THEN dc - 1 ELSE dc

\* GameState::destroy_obstacle
destroy_obstacle(obs, dc, pos) ==
    IF pos \in DOMAIN obs
    THEN [obstacles |-> [c \in DOMAIN obs \ {pos} |-> obs[c]],
          destructible_count |-> Decrement(obs[pos], dc)]
    ELSE [obstacles |-> obs, destructible_count |-> dc]

\* the kinds of obstacle of a GameState: the two generate_game_entities
\* places, and a main block (its health plays no part in GameState)
StateKinds ==
    {Obstacle("Indestructible", 0), Obstacle("Destructible", OBSTACLE_HEALTH),
     [Obstacle("Destructible", CHOOSE h \in MainBlockHps : TRUE) EXCEPT !.is_main_block = TRUE]}

\* the item vectors of at most k items on distinct cells of an n-grid
ItemVectors(n, k) ==
    UNION {{[i \in 1..Len(cells) |-> Item(cells[i], m[i])] :
              m \in [1..Len(cells) -> BOOLEAN]} :
           cells \in UNION {ShufflePrefixes(AllPositions(n), j) : j \in 0..k}}

\* GameState(obs, its, main_pos): destructible_count is counted from obs
InitState ==
    /\ pc = "state"
    /\ grid_size = StateGridSize
    /\ obstacles \in LayoutsOf(StateKinds, StateGridSize, MaxStateObstacles)
    /\ items \in ItemVectors(StateGridSize, MaxStateItems)
    /\ destructible_count = count_destructible_obstacles(obstacles)
    /\ call = NoCall
    /\ ret = FALSE
    /\ obstacle_count = 0
    /\ item_count = 0
    /\ enemy_count = 0
    /\ main_block_hp = 0
    /\ forbidden = {}
    /\ player_pos = NoPos
    /\ enemy_pos_list = <<>>
    /\ main_item_pos = NoPos
    /\ live_obstacles = EmptyMap
    /\ PathIdle
    /\ ConfigIdle
    /\ LevelIdle
    /\ MainIdle

\* a call of collect_item(player_rect)
CollectItem ==
    /\ pc = "state"
    /\ \E hit \in SUBSET (1..Len(items)) :
          LET r == collect_item(items, obstacles, hit)
          IN  /\ items' = r.items
              /\ ret' = r.ret
              /\ call' = [op |-> "collect_item", hit |-> hit, pos |-> NoPos]
    /\ UNCHANGED <<pc, grid_size, obstacles, obstacle_count, item_count, enemy_count,
                   main_block_hp, forbidden, player_pos, enemy_pos_list, main_item_pos,
                   pathVars, destructible_count, configVars, levelVars, mainVars>>

\* a call of destroy_obstacle(pos)
DestroyObstacle ==
    /\ pc = "state"
    /\ \E pos \in AllPositions(grid_size) :
          LET r == destroy_obstacle(obstacles, destructible_count, pos)
          IN  /\ obstacles' = r.obstacles
              /\ destructible_count' = r.destructible_count
              /\ call' = [op |-> "destroy_obstacle", hit |-> {}, pos |-> pos]
    /\ ret' = FALSE
    /\ UNCHANGED <<pc, grid_size, genVars, pathVars, configVars, levelVars, mainVars>>

NextState ==
    \/ CollectItem
    \/ DestroyObstacle

SpecState == InitState /\ [][NextState]_vars

(***************************************************************************)
(* get_level_config                                                         *)
(***************************************************************************)
MaxLevel == 107    \* level ranges over 0..MaxLevel

INT_MAX == 2147483647
INT_MIN == -INT_MAX - 1

CARD_POOL == <<"enemy_fast", "enemy_strong", "enemy_tank", "enemy_spitter", "enemy_leech">>

BASE_LEVELS ==
    << [obstacle_count |-> 15, item_count |-> 3, enemy_count |-> 1, block_hp |-> 10,
        enemy_types |-> <<"basic">>, reward |-> "enemy_fast"],
       [obstacle_count |-> 18, item_count |-> 4, enemy_count |-> 2, block_hp |-> 15,
        enemy_types |-> <<"basic", "strong">>, reward |-> "enemy_strong"] >>

\* the base of the limbs a large natural number is kept in, lowest limb first
Limb == 1000

\* the sum of f[lo], ..., f[hi], by halves
RECURSIVE SumFrom(_, _, _)
SumFrom(f, lo, hi) ==
    IF lo > hi THEN 0
    ELSE IF lo = hi THEN f[lo]
    ELSE LET mid == (lo + hi) \div 2
         IN  SumFrom(f, lo, mid) + SumFrom(f, mid + 1, hi)

\* a sequence without the zeros at its end (the leading zeros of a number)
Trim(ds) ==
    LET nz == {i \in 1..Len(ds) : ds[i] # 0}
    IN  IF nz = {} THEN <<>> ELSE SubSeq(ds, 1, CHOOSE i \in nz : \A j \in nz : j <= i)

\* the product of two numbers in limbs before the carries are taken: limb i
\* is the sum of the a[j] * b[i + 1 - j]
Convolve(a, b) ==
    [i \in 1..(Len(a) + Len(b)) |->
        LET lo == MaxOf(1, i + 1 - Len(b))
            hi == MinOf(i, Len(a))
        IN  SumFrom([j \in lo..hi |-> a[j] * b[i + 1 - j]], lo, hi)]

\* every limb hands what exceeds Limb to the next one
CarryPass(c) ==
    [i \in 1..Len(c) |-> (c[i] % Limb) + (IF i > 1 THEN c[i - 1] \div Limb ELSE 0)]

\* carries are handed on until no limb exceeds Limb
RECURSIVE Normalize(_)
Normalize(c) ==
    IF \A i \in 1..Len(c) : c[i] < Limb THEN c ELSE Normalize(CarryPass(c))

\* the product of two numbers in limbs
MulLimbs(a, b) == Trim(Normalize(Convolve(a, b)))

\* the limbs of 12^k, as the product of two halves (each half is worked
\* out before the product is begun)
RECURSIVE Pow12(_)
Pow12(k) ==
    IF k = 0 THEN <<1>>
    ELSE IF k = 1 THEN <<12>>
    ELSE LET a == Pow12(k \div 2)
             b == Pow12(k - k \div 2)
         IN  IF a # <<>> /\ b # <<>> THEN MulLimbs(a, b) ELSE <<>>

\* the decimal digits of a number in limbs, lowest first, three to a limb
LimbDigits(ls) ==
    [i \in 1..(3 * Len(ls)) |-> (ls[(i - 1) \div 3 + 1] \div 10^((i - 1) % 3)) % 10]

\* the number a digit sequence stands for
RECURSIVE DigitsValue(_)
DigitsValue(ds) == IF ds = <<>> THEN 0 ELSE Head(ds) + 10 * DigitsValue(Tail(ds))

\* the digit sequence stands for a value of int
FitsInt(ds) ==
    \/ Len(ds) < 10
    \/ /\ Len(ds) = 10
       /\ LET hi == DigitsValue(Tail(ds))
          IN  hi < INT_MAX \div 10 \/ (hi = INT_MAX \div 10 /\ Head(ds) <= INT_MAX % 10)

\* static_cast<int>(10 * std::pow(1.2, level - BASE_LEVELS.size() + 1)): the
\* integer part of 10 * 1.2^k = 12^k / 10^(k - 1), which the double product
\* has for every level of the model; converting a double beyond INT_MAX is
\* undefined, and yields INT_MIN or INT_MAX on the usual targets
BlockHp(lv) ==
    LET k == lv - Len(BASE_LEVELS) + 1
        all == LimbDigits(Pow12(k))
        ds == Trim(SubSeq(all, k, Len(all)))
    IN  IF FitsInt(ds) THEN {DigitsValue(ds)} ELSE {INT_MIN, INT_MAX}

\* the LevelConfigs get_level_config(lv) can return, lv >= 0
get_level_config(lv) ==
    IF lv < Len(BASE_LEVELS) THEN {BASE_LEVELS[lv + 1]}
    ELSE {[obstacle_count |-> 20 + lv,
           item_count |-> 5,
           enemy_count |-> MinOf(5, 1 + lv \div 3),
           block_hp |-> hp,
           enemy_types |-> <<"basic", "strong", "fire">>,
           reward |-> CARD_POOL[r]] :
             hp \in BlockHp(lv), r \in 1..Len(CARD_POOL)}

\* get_level_config is called for some level, and then, as main does after
\* each success, for the levels that follow it
InitConfig ==
    /\ pc = "config"
    /\ level \in 0..MaxLevel
    /\ config = NoConfig
    /\ grid_size = 0
    /\ obstacles = EmptyMap
    /\ live_obstacles = EmptyMap
    /\ GenIdle
    /\ PathIdle
    /\ StateIdle
    /\ LevelIdle
    /\ MainIdle

\* LevelConfig config = get_level_config(current_level)
GetLevelConfig ==
    /\ pc = "config"
    /\ config' \in get_level_config(level)
    /\ pc' = "configured"
    /\ UNCHANGED <<grid_size, obstacles, genVars, pathVars, stateVars, level,
                   levelVars, mainVars>>

\* current_level += 1
LevelUp ==
    /\ pc = "configured"
    /\ level < MaxLevel
    /\ level' = level + 1
    /\ pc' = "config"
    /\ UNCHANGED <<grid_size, obstacles, genVars, pathVars, stateVars, config,
                   levelVars, mainVars>>

NextConfig ==
    \/ GetLevelConfig
    \/ LevelUp

SpecConfig == InitConfig /\ [][NextConfig]_vars

(***************************************************************************)
(* main_run_level                                                           *)
(***************************************************************************)
MaxLevelEnemies == 2     \* enemies of a level
MaxLevelObstacles == 2   \* obstacles of a level

\* ztype_map and its default
ztype_map(card) ==
    CASE card = "enemy_fast" -> "fast"
      [] card = "enemy_tank" -> "tank"
      [] card = "enemy_strong" -> "strong"
      [] card = "enemy_spitter" -> "spitter"
      [] card = "enemy_leech" -> "leech"
      [] OTHER -> "basic"

\* Enemy(pos, atk, spd, ztype): a tank has static_cast<int>(attack * 0.5);
\* attack_timer starts at 0.0f, below any attack_interval; ready stands for
\* attack_timer >= attack_interval
Enemy(atk, ztype) ==
    [attack |-> IF ztype = "tank" THEN (atk * 5) \div 10 ELSE atk, ready |-> FALSE]

\* Enemy::move_and_attack for enemy e of st.enemies.  late: adding dt brings
\* attack_timer to attack_interval or beyond; tg: the obstacle of obs_list
\* that blocks the enemy first in a direction in which a Destructible one
\* does, NoPos if none does.  After an attack the timer is 0, so one call
\* attacks at most once.
move_and_attack(st, e, tg, late) ==
    LET en == st.enemies[e]
        ready == en.ready \/ late
    IN  IF tg \in DOMAIN st.obs_list /\ st.obs_list[tg].type = "Destructible" /\ ready
        THEN LET h == st.obs_list[tg].health - en.attack
                 gs == IF h <= 0
                       THEN destroy_obstacle(st.obstacles, st.destructible_count, tg)
                       ELSE [obstacles |-> st.obstacles,
                             destructible_count |-> st.destructible_count]
             IN  [obs_list |-> IF h <= 0
                               THEN [c \in DOMAIN st.obs_list \ {tg} |-> st.obs_list[c]]
                               ELSE [st.obs_list EXCEPT ![tg].health = h],
                  obstacles |-> gs.obstacles,
                  destructible_count |-> gs.destructible_count,
                  enemies |-> [st.enemies EXCEPT ![e].ready = FALSE],
                  attacks |-> Append(st.attacks, [cell |-> tg, amount |-> en.attack])]
        ELSE [st EXCEPT !.enemies[e].ready = ready]

\* the for loop over the enemies, for the enemies e..n
RECURSIVE EnemiesAct(_, _, _, _, _)
EnemiesAct(st, e, n, tgs, lates) ==
    IF e > n THEN st
    ELSE EnemiesAct(move_and_attack(st, e, tgs[e], lates[e]), e + 1, n, tgs, lates)

\* the kinds of the additional obstacles of a level
LevelKinds ==
    {Obstacle("Indestructible", 0), Obstacle("Destructible", OBSTACLE_HEALTH)}

\* the obstacle maps of a level: the main block on the goal cell g and at
\* most MaxLevelObstacles - 1 additional obstacles on other cells
LevelLayouts(g) ==
    {Emplace(m, g, [Obstacle("Destructible", h) EXCEPT !.is_main_block = TRUE]) :
        m \in {l \in LayoutsOf(LevelKinds, StateGridSize, MaxLevelObstacles - 1) :
                  g \notin DOMAIN l},
        h \in MainBlockHps}

\* main_run_level up to its loop: the GameState and the enemies are built
InitLevel ==
    /\ pc = "level"
    /\ grid_size = StateGridSize
    /\ \E g \in AllPositions(StateGridSize) :
          /\ obstacles \in LevelLayouts(g)
          /\ items = <<Item(g, TRUE)>>
    /\ destructible_count = count_destructible_obstacles(obstacles)
    /\ call = NoCall
    /\ ret = FALSE
    /\ \E n \in 1..MaxLevelEnemies, zt \in {ztype_map(c) : c \in Range(CARD_POOL) \cup {"basic"}} :
          level_enemies = [e \in 1..n |-> Enemy(ENEMY_ATTACK, zt)]
    /\ attacks = <<>>
    /\ game_result = ""
    /\ obstacle_count = 0
    /\ item_count = 0
    /\ enemy_count = 0
    /\ main_block_hp = 0
    /\ forbidden = {}
    /\ player_pos = NoPos
    /\ enemy_pos_list = <<>>
    /\ main_item_pos = NoPos
    /\ live_obstacles = EmptyMap
    /\ PathIdle
    /\ ConfigIdle
    /\ MainIdle

\* an iteration of while (running) that polls SDL_QUIT: return "exit"
TickQuit ==
    /\ pc = "level"
    /\ game_result' = "exit"
    /\ attacks' = <<>>
    /\ pc' = "level_returned"
    /\ UNCHANGED <<grid_size, obstacles, genVars, pathVars, stateVars, configVars,
                   level_enemies, mainVars>>

\* any other iteration: the player moves and collects, obs_list is copied
\* from game_state.obstacles, the enemies move and attack in turn until one
\* of them (caught, 0 if none) touches the player, and the items are counted.
\* An enemy that no Destructible obstacle blocks has the target NoPos.
Tick ==
    /\ pc = "level"
    /\ \E hit \in SUBSET (1..Len(items)),
          caught \in 0..Len(level_enemies),
          tgs \in [1..Len(level_enemies) ->
                     {c \in DOMAIN obstacles : obstacles[c].type = "Destructible"}
                     \cup {NoPos}],
          lates \in [1..Len(level_enemies) -> BOOLEAN] :
          LET got == collect_item(items, obstacles, hit)
              n == IF caught = 0 THEN Len(level_enemies) ELSE caught
              st == EnemiesAct([obs_list |-> obstacles,
                                obstacles |-> obstacles,
                                destructible_count |-> destructible_count,
                                enemies |-> level_enemies,
                                attacks |-> <<>>], 1, n, tgs, lates)
          IN  /\ items' = got.items
              /\ ret' = got.ret
              /\ call' = [op |-> "collect_item", hit |-> hit, pos |-> NoPos]
              /\ obstacles' = st.obstacles
              /\ destructible_count' = st.destructible_count
              /\ level_enemies' = st.enemies
              /\ attacks' = st.attacks
              /\ game_result' = IF caught # 0 THEN "fail"
                                 ELSE IF got.items = <<>> THEN "success" ELSE ""
              /\ pc' = IF caught # 0 \/ got.items = <<>> THEN "level_returned" ELSE "level"
    /\ UNCHANGED <<grid_size, obstacle_count, item_count, enemy_count, main_block_hp,
                   forbidden, player_pos, enemy_pos_list, main_item_pos, pathVars,
                   configVars, mainVars>>

NextLevel ==
    \/ TickQuit
    \/ Tick

SpecLevel == InitLevel /\ [][NextLevel]_vars

(***************************************************************************)
(* main: the start menu and the level loop                                  *)
(***************************************************************************)

MaxMainLevel == 3     \* levels are won while current_level < MaxMainLevel

\* what main's actions leave alone
worldVars == <<grid_size, obstacles, genVars, pathVars, stateVars, levelVars>>

\* main at show_start_menu, before any level
InitMain ==
    /\ pc = "menu"
    /\ grid_size = 0
    /\ obstacles = EmptyMap
    /\ live_obstacles = EmptyMap
    /\ GenIdle
    /\ PathIdle
    /\ PlayIdle

\* show_start_menu, a click on START: it returns true; main starts with, or
\* after HOME resets to, current_level = 0 and no card
StartMenuStart ==
    /\ pc = "menu"
    /\ current_level' = 0
    /\ enemy_cards_collected' = <<>>
    /\ pc' = "top"
    /\ UNCHANGED <<worldVars, configVars, chosen_enemy, reward_choices, result,
                   chosen, quit_seen>>

\* show_start_menu, a click on HOW TO PLAY: show_help(renderer)
StartMenuHelp ==
    /\ pc = "menu"
    /\ pc' = "help"
    /\ UNCHANGED <<worldVars, configVars, mainVars>>

\* show_help, a click on BACK: it returns "back", which show_start_menu drops
HelpBack ==
    /\ pc = "help"
    /\ pc' = "menu"
    /\ UNCHANGED <<worldVars, configVars, mainVars>>

\* show_help, SDL_QUIT: it returns "quit", which show_start_menu drops
HelpQuit ==
    /\ pc = "help"
    /\ pc' = "menu"
    /\ quit_seen' = TRUE
    /\ UNCHANGED <<worldVars, configVars, current_level, enemy_cards_collected,
                   chosen_enemy, reward_choices, result, chosen>>

\* show_start_menu, a click on EXIT: it returns false and main ends
StartMenuExit ==
    /\ pc = "menu"
    /\ pc' = "exited"
    /\ UNCHANGED <<worldVars, configVars, mainVars>>

\* show_start_menu, SDL_QUIT: it returns false and main ends
StartMenuQuit ==
    /\ pc = "menu"
    /\ pc' = "exited"
    /\ quit_seen' = TRUE
    /\ UNCHANGED <<worldVars, configVars, current_level, enemy_cards_collected,
                   chosen_enemy, reward_choices, result, chosen>>

\* the head of while (true): config = get_level_config(current_level), then
\* chosen_enemy is "basic" without a card and select_enemy_screen's otherwise
LoopTop ==
    /\ pc = "top"
    /\ level' = current_level
    /\ config' \in get_level_config(current_level)
    /\ IF enemy_cards_collected = <<>>
       THEN /\ chosen_enemy' = "basic"
            /\ pc' = "run"
       ELSE /\ chosen_enemy' = chosen_enemy
            /\ pc' = "select"
    /\ chosen' = ""
    /\ UNCHANGED <<worldVars, current_level, enemy_cards_collected, reward_choices,
                   result, quit_seen>>

\* select_enemy_screen, a click on the i-th card: chosen = card
SelectClick ==
    /\ pc = "select"
    /\ \E i \in 1..Len(enemy_cards_collected) : chosen' = enemy_cards_collected[i]
    /\ UNCHANGED <<pc, worldVars, configVars, current_level, enemy_cards_collected,
                   chosen_enemy, reward_choices, result, quit_seen>>

\* select_enemy_screen, a click on CONFIRM:
\* return chosen.empty() ? owned_cards.front() : chosen
SelectConfirm ==
    /\ pc = "select"
    /\ chosen_enemy' = IF chosen = "" THEN enemy_cards_collected[1] ELSE chosen
    /\ chosen' = ""
    /\ pc' = "run"
    /\ UNCHANGED <<worldVars, configVars, current_level, enemy_cards_collected,
                   reward_choices, result, quit_seen>>

\* select_enemy_screen, SDL_QUIT: return "basic"
SelectQuit ==
    /\ pc = "select"
    /\ chosen_enemy' = "basic"
    /\ chosen' = ""
    /\ pc' = "run"
    /\ quit_seen' = TRUE
    /\ UNCHANGED <<worldVars, configVars, current_level, enemy_cards_collected,
                   reward_choices, result>>

\* main_run_level returns "exit" (SDL_QUIT during the level): main ends
LevelQuit ==
    /\ pc = "run"
    /\ result' = "exit"
    /\ pc' = "exited"
    /\ quit_seen' = TRUE
    /\ UNCHANGED <<worldVars, configVars, current_level, enemy_cards_collected,
                   chosen_enemy, reward_choices, chosen>>

\* main_run_level returns "fail": show_fail_screen
LevelFail ==
    /\ pc = "run"
    /\ result' = "fail"
    /\ pc' = "fail"
    /\ UNCHANGED <<worldVars, configVars, current_level, enemy_cards_collected,
                   chosen_enemy, reward_choices, chosen, quit_seen>>

\* the cards of CARD_POOL that owned does not hold
Pool(owned) == {c \in Range(CARD_POOL) : c \notin Range(owned)}

\* main_run_level returns "success": reward_choices are the first
\* min(3, pool.size()) cards of the shuffled pool, none when the pool is
\* empty; show_success_screen
LevelSuccess ==
    /\ pc = "run"
    /\ current_level < MaxMainLevel
    /\ result' = "success"
    /\ LET pool == Pool(enemy_cards_collected)
       IN  reward_choices' \in ShufflePrefixes(pool, MinOf(3, Cardinality(pool)))
    /\ chosen' = ""
    /\ pc' = "success"
    /\ UNCHANGED <<worldVars, configVars, current_level, enemy_cards_collected,
                   chosen_enemy, quit_seen>>

\* show_fail_screen, a click on RETRY: continue
FailRetry ==
    /\ pc = "fail"
    /\ pc' = "top"
    /\ UNCHANGED <<worldVars, configVars, mainVars>>

\* show_fail_screen, a click on HOME: show_start_menu
FailHome ==
    /\ pc = "fail"
    /\ pc' = "menu"
    /\ UNCHANGED <<worldVars, configVars, mainVars>>

\* show_fail_screen, SDL_QUIT: it returns "exit" and main ends
FailQuit ==
    /\ pc = "fail"
    /\ pc' = "exited"
    /\ quit_seen' = TRUE
    /\ UNCHANGED <<worldVars, configVars, current_level, enemy_cards_collected,
                   chosen_enemy, reward_choices, result, chosen>>

\* show_success_screen, a click on the i-th card: chosen = card
SuccessClick ==
    /\ pc = "success"
    /\ \E i \in 1..Len(reward_choices) : chosen' = reward_choices[i]
    /\ UNCHANGED <<pc, worldVars, configVars, current_level, enemy_cards_collected,
                   chosen_enemy, reward_choices, result, quit_seen>>

\* if (!chosen.empty()) enemy_cards_collected.push_back(chosen)
PushCard(cards, c) == IF c # "" THEN Append(cards, c) ELSE cards

\* what main does with the string c show_success_screen returned
\* (it reads no further into what c is): push it, current_level += 1
AfterSuccessScreen(c) ==
    /\ enemy_cards_collected' = PushCard(enemy_cards_collected, c)
    /\ current_level' = current_level + 1
    /\ reward_choices' = <<>>
    /\ chosen' = ""
    /\ pc' = "top"
    /\ UNCHANGED <<worldVars, configVars, chosen_enemy, result>>

\* show_success_screen, a click on CONFIRM with reward_choices not empty:
\* return chosen.empty() ? reward_choices.front() : chosen
SuccessConfirm ==
    /\ pc = "success"
    /\ reward_choices # <<>>
    /\ UNCHANGED quit_seen
    /\ AfterSuccessScreen(IF chosen = "" THEN reward_choices[1] ELSE chosen)

\* show_success_screen, SDL_QUIT: return "exit"
SuccessQuit ==
    /\ pc = "success"
    /\ quit_seen' = TRUE
    /\ AfterSuccessScreen("exit")

NextMain ==
    \/ StartMenuStart
    \/ StartMenuHelp
    \/ HelpBack
    \/ HelpQuit
    \/ StartMenuExit
    \/ StartMenuQuit
    \/ LoopTop
    \/ SelectClick
    \/ SelectConfirm
    \/ SelectQuit
    \/ LevelQuit
    \/ LevelFail
    \/ LevelSuccess
    \/ FailRetry
    \/ FailHome
    \/ FailQuit
    \/ SuccessClick
    \/ SuccessConfirm
    \/ SuccessQuit

SpecMain == InitMain /\ [][NextMain]_vars

\* main with the screens never left waiting: whenever a step of main's flow
\* is possible, one is taken (the player keeps giving input)
SpecMainRun == SpecMain /\ WF_vars(NextMain)

(***************************************************************************)
(* Properties of generate_game_entities                                     *)
(***************************************************************************)
Returned == pc = "returned"

\* the cells of the items that are not the primary item
NonPrimaryCells == {items[i].pos : i \in {j \in 1..Len(items) : ~items[j].is_main}}

\* the cells any entity of the returned layout stands on
EntityCells ==
    {player_pos} \cup Range(enemy_pos_list) \cup {main_item_pos}
    \cup DOMAIN obstacles \cup {items[i].pos : i \in 1..Len(items)}

\* a sequence without a repeated element
Injective(s) == \A i, j \in 1..Len(s) : i # j => s[i] # s[j]

\* C1: in every returned layout, none of the player start, the enemy starts,
\* the goal cell, the obstacle cells or the item cells is a grid corner.
C1_NoEntityOnCorner ==
    Returned => EntityCells \cap Corners(grid_size) = {}

\* C2: in every returned layout the player start, the enemy starts, the
\* obstacle cells and the non-primary item cells are pairwise distinct, and
\* the one shared cell is the goal cell, holding the main block and the
\* primary item.
C2_PairwiseDistinct ==
    Returned =>
        /\ Injective(enemy_pos_list)
        /\ Injective(items)
        /\ Injective([i \in 1..Len(items) |-> items[i].pos])
        /\ player_pos \notin Range(enemy_pos_list)
        /\ ({player_pos} \cup Range(enemy_pos_list)) \cap DOMAIN obstacles = {}
        /\ ({player_pos} \cup Range(enemy_pos_list) \cup DOMAIN obstacles)
              \cap NonPrimaryCells = {}
        /\ \A i \in 1..Len(items) :
              items[i].pos \in DOMAIN obstacles =>
                  /\ items[i].is_main
                  /\ items[i].pos = main_item_pos
                  /\ obstacles[items[i].pos].is_main_block

\* a returned layout with an enemy, a further obstacle and a non-primary item
C2_Witness ==
    /\ Returned
    /\ Len(enemy_pos_list) >= 1
    /\ Cardinality(DOMAIN obstacles) >= 2
    /\ NonPrimaryCells # {}

\* C3: once pick_valid_positions has returned, and so in every returned
\* layout, every enemy start is at Manhattan distance >= 5 from the player
\* start: a batch with a closer enemy is never the one returned.
C3_MinDistance ==
    pc # "pick" =>
        \A i \in 1..Len(enemy_pos_list) :
            Manhattan(player_pos, enemy_pos_list[i]) >= 5

\* a returned layout that has an enemy
C3_Witness == Returned /\ Len(enemy_pos_list) >= 1

\* C4: every returned layout has exactly one obstacle with is_main_block and
\* exactly one item with is_main, both at the goal cell; the obstacle is
\* Destructible with health main_block_hp; the goal cell is off the outermost
\* ring and is neither the player start nor an enemy start.
C4_GoalGuard ==
    Returned =>
        /\ {c \in DOMAIN obstacles : obstacles[c].is_main_block} = {main_item_pos}
        /\ Cardinality({i \in 1..Len(items) : items[i].is_main}) = 1
        /\ \A i \in 1..Len(items) : items[i].is_main => items[i].pos = main_item_pos
        /\ obstacles[main_item_pos].type = "Destructible"
        /\ obstacles[main_item_pos].health = main_block_hp
        /\ main_item_pos[1] \in 1..(grid_size - 2)
        /\ main_item_pos[2] \in 1..(grid_size - 2)
        /\ main_item_pos # player_pos
        /\ main_item_pos \notin Range(enemy_pos_list)

\* a returned layout whose obstacles include a Destructible one besides the
\* main block, and which has an enemy
C4_Witness ==
    /\ Returned
    /\ \E c \in DOMAIN obstacles :
          obstacles[c].type = "Destructible" /\ ~obstacles[c].is_main_block
    /\ Len(enemy_pos_list) >= 1

(***************************************************************************)
(* Properties of build_graph                                                *)
(***************************************************************************)
\* build_graph has just returned graph
Built == pc = "built"

\* cells next to each other in one of the four directions
Adjacent(a, b) == Manhattan(a, b) = 1

Indestructible(c) == c \in DOMAIN obstacles /\ obstacles[c].type = "Indestructible"

Destructible(c) == c \in DOMAIN obstacles /\ obstacles[c].type = "Destructible"

\* the directed edges of the graph, from its adjacency lists
EdgeSet == UNION {{<<a, graph.edges[a][i]>> : i \in 1..Len(graph.edges[a])}
                  : a \in DOMAIN graph.edges}

\* C5: the built graph has no edge from or to an Indestructible cell, and has
\* the edge (a, b) for every two in-bounds 4-adjacent cells a, b that are
\* both not Indestructible.
C5_GraphSoundAndComplete ==
    Built =>
        /\ \A e \in EdgeSet \cup DOMAIN graph.weights :
              ~Indestructible(e[1]) /\ ~Indestructible(e[2])
        /\ \A a, b \in AllPositions(grid_size) :
              (Adjacent(a, b) /\ ~Indestructible(a) /\ ~Indestructible(b))
                  => (<<a, b>> \in EdgeSet /\ <<a, b>> \in DOMAIN graph.weights)
        /\ \A e \in EdgeSet : Adjacent(e[1], e[2]) /\ e \in AllPositions(grid_size) \X AllPositions(grid_size)

\* a graph built from a layout with an Indestructible cell next to a cell
\* that is not
C5_Witness ==
    /\ Built
    /\ EdgeSet # {}
    /\ \E a, b \in AllPositions(grid_size) :
          Adjacent(a, b) /\ Indestructible(a) /\ ~Indestructible(b)

\* C6: the weight of every edge (a, b) is 10.0 if b holds a Destructible
\* obstacle of the build-time layout and 1.0 otherwise, whatever a holds.
C6_WeightByDestination ==
    Built =>
        /\ DOMAIN graph.weights = EdgeSet
        /\ \A e \in EdgeSet :
              graph.weights[e] = IF Destructible(e[2]) THEN 100 ELSE 10

\* a graph with an edge between two Destructible cells, an edge from a free
\* cell into a Destructible one, and an edge between free cells
C6_Witness ==
    /\ Built
    /\ \E e \in EdgeSet : Destructible(e[1]) /\ Destructible(e[2])
    /\ \E e \in EdgeSet : e[1] \notin DOMAIN obstacles /\ Destructible(e[2])
    /\ \E e \in EdgeSet : e[1] \notin DOMAIN obstacles /\ e[2] \notin DOMAIN obstacles

\* C7, as claimed: an edge has weight 1.0 exactly when both its ends are free
\* cells, and weight 10.0 when its source or its destination is Destructible.
C7_WeightEitherEnd ==
    Built =>
        \A e \in EdgeSet :
            /\ graph.weights[e] = 10
                  <=> (e[1] \notin DOMAIN obstacles /\ e[2] \notin DOMAIN obstacles)
            /\ (Destructible(e[1]) \/ Destructible(e[2])) => graph.weights[e] = 100

\* C7, amended: an edge has weight 1.0 exactly when its destination is a
\* free cell and 10.0 exactly when its destination is Destructible; an edge
\* that leaves a Destructible cell for a free cell has weight 1.0.
C7_WeightDestinationOnly ==
    Built =>
        \A e \in EdgeSet :
            /\ graph.weights[e] = 10 <=> e[2] \notin DOMAIN obstacles
            /\ graph.weights[e] = 100 <=> Destructible(e[2])
            /\ (Destructible(e[1]) /\ e[2] \notin DOMAIN obstacles) => graph.weights[e] = 10

\* a graph with an edge that leaves a Destructible cell for a free cell
C7_Witness ==
    /\ Built
    /\ \E e \in EdgeSet : Destructible(e[1]) /\ e[2] \notin DOMAIN obstacles

(***************************************************************************)
(* Properties of a_star_search and reconstruct_path                         *)
(***************************************************************************)
LiveIndestructible(c) ==
    c \in DOMAIN live_obstacles /\ live_obstacles[c].type = "Indestructible"

LiveDestructible(c) ==
    c \in DOMAIN live_obstacles /\ live_obstacles[c].type = "Destructible"

\* the dynamic cost model: the cost, in tenths, of the step a -> b along an
\* edge of the graph; 1 + ceil(h / ENEMY_ATTACK) * 0.1 into a live
\* Destructible cell of health h >= 1, the static weight of the edge otherwise
DynamicStepCost(a, b) ==
    IF LiveDestructible(b)
    THEN 10 + (live_obstacles[b].health + 9) \div 10
    ELSE graph.weights[<<a, b>>]

\* the steps a path may take: the edges of the graph into cells that are
\* not Indestructible in the live map
Steps == {e \in DOMAIN graph.weights : ~LiveIndestructible(e[2])}

Least(S) == CHOOSE m \in S : \A x \in S : m <= x

\* the cells one step before v
StepsInto(v) ==
    {u \in {<<v[1] - 1, v[2]>>, <<v[1] + 1, v[2]>>, <<v[1], v[2] - 1>>, <<v[1], v[2] + 1>>} :
        <<u, v>> \in DOMAIN graph.weights}

\* the least cost of a walk from start to each cell it can reach, by
\* relaxing every step until nothing changes; every step costs more than 0,
\* so a cheapest walk is a simple path and this is the minimum over all
\* simple paths
RECURSIVE Cheapest(_)
Cheapest(d) ==
    LET cand(v) == IF LiveIndestructible(v) THEN {}
                   ELSE {d[u] + DynamicStepCost(u, v) : u \in StepsInto(v) \cap DOMAIN d}
        old(v) == IF v \in DOMAIN d THEN {d[v]} ELSE {}
        reached == {v \in AllPositions(grid_size) : cand(v) \cup old(v) # {}}
        d2 == [v \in reached |-> Least(cand(v) \cup old(v))]
    IN  IF d2 = d THEN d ELSE Cheapest(d2)

\* the total cost of the steps of a sequence of cells
RECURSIVE PathCost(_, _)
PathCost(p, i) ==
    IF i >= Len(p) THEN 0 ELSE DynamicStepCost(p[i], p[i + 1]) + PathCost(p, i + 1)

\* C8: when goal can be reached from start, the path reconstruct_path returns
\* runs from start to goal along steps of the graph, its total cost under
\* the dynamic cost model is the minimum over all start-to-goal paths, and
\* cost_so_far[goal] is that minimum, however ties in the frontier are broken.
C8_PathIsCheapest ==
    pc = "done" =>
        LET least == Cheapest((start :> 0))
        IN  goal \in DOMAIN least =>
                /\ goal \in DOMAIN cost_so_far
                /\ cost_so_far[goal] = least[goal]
                /\ Len(path) >= 1
                /\ path[1] = start
                /\ path[Len(path)] = goal
                /\ \A i \in 1..(Len(path) - 1) : <<path[i], path[i + 1]>> \in Steps
                /\ PathCost(path, 1) = least[goal]

\* a finished search on a small grid with an Indestructible obstacle, whose
\* returned path has at least three steps and enters a Destructible cell
C8_Witness ==
    /\ pc = "done"
    /\ grid_size = PathGridSize
    /\ Len(path) >= 4
    /\ \E i \in 2..Len(path) : LiveDestructible(path[i])
    /\ \E c \in DOMAIN live_obstacles : LiveIndestructible(c)

\* no entry of cost_so_far or came_from for cell c changes in the step
UnchangedAt(c) ==
    /\ (c \in DOMAIN cost_so_far') <=> (c \in DOMAIN cost_so_far)
    /\ (c \in DOMAIN came_from') <=> (c \in DOMAIN came_from)
    /\ c \in DOMAIN cost_so_far => cost_so_far'[c] = cost_so_far[c]
    /\ c \in DOMAIN came_from => came_from'[c] = came_from[c]

\* what an iteration that pops cur does to the neighbor nb the graph lists
RelaxedByLiveMap(cur, nb) ==
    IF LiveIndestructible(nb)
    THEN /\ UnchangedAt(nb)
         /\ {e \in frontier' : e[2] = nb} = {e \in frontier : e[2] = nb}
    ELSE LET step == IF LiveDestructible(nb)
                     THEN 10 + (live_obstacles[nb].health + 9) \div 10
                     ELSE graph.weights[<<cur, nb>>]
             new_cost == cost_so_far[cur] + step
         IN  IF nb \notin DOMAIN cost_so_far \/ new_cost < cost_so_far[nb]
             THEN /\ cost_so_far'[nb] = new_cost
                  /\ came_from'[nb] = cur
                  /\ <<new_cost + 10 * Manhattan(goal, nb), nb>> \in frontier'
             ELSE UnchangedAt(nb)

\* an iteration of the search loop that expands a cell
ExpandStepByLiveMap ==
    (pc = "search" /\ pc' = "search" /\ frontier' # frontier) =>
        \E e \in frontier \ frontier' :
            /\ frontier \ frontier' = {e}
            /\ \A nb \in Range(GraphNeighbors(graph, e[2])) : RelaxedByLiveMap(e[2], nb)
            /\ \A c \in AllPositions(grid_size) \ Range(GraphNeighbors(graph, e[2])) :
                  UnchangedAt(c)

\* no cell but start is recorded while Indestructible in the live map
NoLiveIndestructibleRecorded ==
    \A c \in (DOMAIN cost_so_far \cup DOMAIN came_from) \ {start} : ~LiveIndestructible(c)

\* C9: the live obstacle map decides the cost of a step to a neighbor the
\* graph lists: a neighbor Indestructible in the live map is not relaxed or
\* recorded, a neighbor Destructible with health h costs
\* 1.0 + ceil(h / ENEMY_ATTACK) * 0.1, any other neighbor costs the static
\* weight of the edge (10.0 when its obstacle was destroyed after the build).
C9_LiveMapDecides ==
    [](NoLiveIndestructibleRecorded) /\ [][ExpandStepByLiveMap]_vars

\* a search that recorded, at the static weight 10.0, a cell whose
\* Destructible obstacle was destroyed after the graph was built
C9_Witness ==
    /\ pc = "searched"
    /\ \E n \in DOMAIN cost_so_far \ {start} :
          /\ Destructible(n)
          /\ n \notin DOMAIN live_obstacles
          /\ cost_so_far[n] = cost_so_far[came_from[n]] + 100

\* the search of the example has returned its path
ExampleDone == pc = "done" /\ grid_size = ExampleGridSize

\* C10, as claimed: on the example grid the path from (3, 0) to (3, 5)
\* passes through (3, 3) and its total cost is 6.1.
C10_ExampleCost61 ==
    ExampleDone => (<<3, 3>> \in Range(path) /\ cost_so_far[goal] = 61)

\* C10, amended: the path passes through (3, 3) and its total cost is 5.1,
\* four steps of 1.0 and the step of 1.1 into (3, 3).
C10_ExampleCost51 ==
    ExampleDone =>
        /\ <<3, 3>> \in Range(path)
        /\ cost_so_far[goal] = 51
        /\ path = << <<3, 0>>, <<3, 1>>, <<3, 2>>, <<3, 3>>, <<3, 4>>, <<3, 5>> >>

\* the search of the example has returned a path that ends at the goal
C10_Witness == ExampleDone /\ start = Example.start /\ path[Len(path)] = Example.goal

\* the cells a sequence of steps leads to from the cells of S
RECURSIVE ReachableFrom(_)
ReachableFrom(S) ==
    LET S2 == S \cup {v \in AllPositions(grid_size) : StepsInto(v) \cap S # {} /\ ~LiveIndestructible(v)}
    IN  IF S2 = S THEN S ELSE ReachableFrom(S2)

\* the query's goal is another cell than start and no sequence of steps leads
\* from start to it
Unreachable == start # goal /\ goal \notin ReachableFrom({start})

\* the query has run to the end and returned the one-element path [start]
ReturnedStartOnly == pc = "done" /\ path = <<start>>

\* what holds all through a query whose goal cannot be reached
NoPathSafe ==
    Unreachable =>
        /\ pc \notin {"walk", "threw"}
        /\ goal \notin DOMAIN came_from
        /\ (pc = "searched" => frontier = {})
        /\ (pc = "done" => path = <<start>>)

\* C11: when goal cannot be reached from start (start # goal), a_star_search
\* ends on an empty frontier without recording goal in came_from, and
\* reconstruct_path returns exactly [start] and raises no error.
C11_NoPathFallback ==
    /\ [](NoPathSafe)
    /\ ((pc = "search" /\ Unreachable) ~> ReturnedStartOnly)

\* a finished query whose goal is a free cell with every neighbor
\* Indestructible, and whose start has a free neighbor
C11_Witness ==
    /\ ReturnedStartOnly
    /\ start # goal
    /\ goal \notin DOMAIN live_obstacles
    /\ \A c \in AllPositions(grid_size) : Adjacent(c, goal) => LiveIndestructible(c)
    /\ Cardinality(DOMAIN cost_so_far) >= 3

\* the path reconstruct_path returned
Done == pc = "done"

\* the cells of p from the second on are not Indestructible in the live map
NoIndestructibleAfterFirst(p) == \A i \in 2..Len(p) : ~LiveIndestructible(p[i])

\* p runs from start to goal, each cell recorded as reached from the one
\* before it along an edge of the graph, and no cell twice
WalksCameFrom(p) ==
    /\ Len(p) >= 1
    /\ p[1] = start
    /\ p[Len(p)] = goal
    /\ \A i \in 1..(Len(p) - 1) :
          /\ <<p[i], p[i + 1]>> \in DOMAIN graph.weights
          /\ p[i + 1] \in Range(GraphNeighbors(graph, p[i]))
          /\ came_from[p[i + 1]] = p[i]
    /\ Injective(p)

\* the iterations while (current != start) makes from cell c before it
\* ends, -1 if it has not ended after fuel iterations or came_from.at throws
RECURSIVE WalkLength(_, _)
WalkLength(c, fuel) ==
    IF c = start THEN 0
    ELSE IF fuel = 0 \/ c \notin DOMAIN came_from THEN -1
    ELSE LET r == WalkLength(came_from[c], fuel - 1)
         IN  IF r < 0 THEN -1 ELSE r + 1

\* reconstruct_path, called or under way with goal recorded, ends: its loop
\* visits a cell at most once, so it ends within as many iterations as the
\* grid has cells or never
WalkEnds ==
    /\ pc # "threw"
    /\ (pc = "searched" /\ goal \in DOMAIN came_from) =>
           WalkLength(goal, grid_size * grid_size) >= 0
    /\ pc = "walk" => WalkLength(current, grid_size * grid_size - Len(path)) >= 0

\* C18, as claimed: whenever a_star_search has recorded goal in came_from,
\* reconstruct_path terminates and returns a sequence from start to goal in
\* which every consecutive pair (a, b) is an edge of the graph with
\* came_from[b] = a, no cell holds an Indestructible obstacle in the live
\* map, and no cell appears twice.
C18_PathNoIndestructible ==
    /\ WalkEnds
    /\ (Done /\ goal \in DOMAIN came_from) =>
           /\ WalksCameFrom(path)
           /\ \A i \in 1..Len(path) : ~LiveIndestructible(path[i])

\* C18, amended: as claimed, but it is the cells after start that hold no
\* Indestructible obstacle in the live map; start itself may hold one.
C18_PathNoIndestructibleAfterStart ==
    /\ WalkEnds
    /\ (Done /\ goal \in DOMAIN came_from) =>
           /\ WalksCameFrom(path)
           /\ NoIndestructibleAfterFirst(path)

\* a returned path of three cells or more that starts on a cell which is
\* Indestructible in the live map
C18_Witness ==
    /\ Done
    /\ goal \in DOMAIN came_from
    /\ LiveIndestructible(start)
    /\ Len(path) >= 3

(***************************************************************************)
(* Further properties of generate_game_entities                             *)
(***************************************************************************)
\* C12: generate_game_entities never fails for lack of space: from the point
\* where the items are placed it returns normally, and the items returned are
\* the primary item and exactly min(max(item_count, 1) - 1, F) others, F the
\* number of cells free after the obstacles were placed.
C12_NeverFailsForSpace ==
    [][pc = "items" =>
          /\ pc' = "returned"
          /\ Cardinality(NonPrimaryCells') =
                 MinOf(MaxOf(item_count, 1) - 1, Cardinality(ItemCandidates))
          /\ Len(items') >= 1]_vars

\* the obstacle map is complete: the additional obstacles have been placed
ObstaclesPlaced == pc \in {"items", "returned", "threw"}

\* the obstacles besides the goal guard
Additional == {c \in DOMAIN obstacles : ~obstacles[c].is_main_block}

AdditionalDestructible == {c \in Additional : obstacles[c].type = "Destructible"}

\* the cells that were free when the additional obstacles were drawn: all but
\* the corners, the player start, the enemy starts and the goal cell
FreeForObstacles ==
    Cardinality(AllPositions(grid_size)
                \ (Corners(grid_size) \cup {player_pos} \cup Range(enemy_pos_list)
                   \cup {main_item_pos}))

\* the number of additional obstacles asked for
AdditionalAsked == MaxOf(obstacle_count - 1, 0)

\* the number of additional obstacles placed: min(asked, free cells)
AdditionalPlaced == MinOf(AdditionalAsked, FreeForObstacles)

\* there are placed additional obstacles, split of them are Destructible
\* with health OBSTACLE_HEALTH and the others are Indestructible
AdditionalAsPlaced(placed, split) ==
    LET add == Additional
        des == {c \in add : obstacles[c].type = "Destructible"}
    IN  /\ Cardinality(add) = placed
        /\ Cardinality(des) = split
        /\ \A c \in des : obstacles[c].health = OBSTACLE_HEALTH
        /\ \A c \in add \ des : obstacles[c].type = "Indestructible"

\* C13, as claimed: besides the goal guard there are min(obstacle_count - 1,
\* free cells) additional obstacles (0 if obstacle_count < 1), of which
\* floor((obstacle_count - 1) * 0.3) are Destructible with health 20 and not
\* goal guards, and all the others Indestructible.
C13_SplitOfAsked ==
    ObstaclesPlaced =>
        AdditionalAsPlaced(AdditionalPlaced, (AdditionalAsked * 3) \div 10)

\* the additional obstacles have just been placed
ObstaclesJustPlaced == pc = "items"

\* C13, amended: of the min(obstacle_count - 1, free cells) additional
\* obstacles placed, floor(0.3 * that number placed) are Destructible with
\* health 20 and not goal guards, and all the others Indestructible.  This
\* holds when the obstacles have just been placed, and what it speaks of is
\* left as it is from then on.
C13_SplitOfPlaced ==
    /\ [](ObstaclesJustPlaced =>
            LET placed == AdditionalPlaced
            IN  AdditionalAsPlaced(placed, (placed * 3) \div 10))
    /\ [][ObstaclesPlaced =>
            UNCHANGED <<grid_size, obstacle_count, obstacles, player_pos,
                        enemy_pos_list, main_item_pos>>]_vars

\* more obstacles were asked for than cells were free, and the obstacles
\* placed are of both types
C13_Witness ==
    /\ ObstaclesPlaced
    /\ AdditionalAsked > FreeForObstacles
    /\ AdditionalDestructible # {}
    /\ Additional \ AdditionalDestructible # {}

\* no player cell has enemy_count other cells at Manhattan distance
\* MIN_DISTANCE or more: no batch can pass
Unsatisfiable ==
    \A p \in AllPositions(grid_size) :
        Cardinality({e \in AllPositions(grid_size) \ {p} : Manhattan(p, e) >= MIN_DISTANCE})
            < enemy_count

\* C16: when the minimum-distance constraint cannot be met on the grid with
\* the enemy count (as with enemy_count >= 1 and grid_size <= 3),
\* generate_game_entities never returns: pick_valid_positions stays in its
\* loop, every iteration rejects its batch, and no later point of the
\* function is reached.
C16_PickLoopsForever ==
    Unsatisfiable =>
        /\ pc = "pick"
        /\ ENABLED PickRejected
        /\ ~ENABLED PickAccepted

\* pick_valid_positions is in its loop on a grid on which no batch can pass
C16_Witness ==
    /\ pc = "pick"
    /\ enemy_count >= 1
    /\ grid_size = GenGridSize - 1
    /\ Unsatisfiable
    /\ ENABLED PickRejected

(***************************************************************************)
(* Properties of GameState                                                  *)
(***************************************************************************)
\* the primary items of an item vector, in order
MainItems(its) == SelectSeq(its, LAMBDA it : it.is_main)

\* an obstacle with is_main_block is in the map
GuardPresent(obs) == \E c \in DOMAIN obs : obs[c].is_main_block

\* the step is a call of collect_item whose first intersected item is a
\* primary item, made while the guard is present
BlockedCollect ==
    /\ call'.op = "collect_item"
    /\ call'.hit # {}
    /\ items[CHOOSE i \in call'.hit : \A j \in call'.hit : i <= j].is_main
    /\ GuardPresent(obstacles)

CountMatches == destructible_count = count_destructible_obstacles(obstacles)

\* a destroy_obstacle step on a cell that holds no obstacle changes nothing
AbsentCellNoChange ==
    (call'.op = "destroy_obstacle" /\ call'.pos \notin DOMAIN obstacles) =>
        /\ obstacles' = obstacles
        /\ destructible_count' = destructible_count
        /\ items' = items

\* C19: after construction of a GameState and after any sequence of
\* destroy_obstacle calls, for cells with or without an obstacle, Destructible
\* or Indestructible, destructible_count is the number of obstacles in the
\* map whose type is Destructible; destroy_obstacle on a cell with no
\* obstacle changes nothing.
C19_CountOfDestructible ==
    /\ [](pc = "state" => CountMatches)
    /\ [][AbsentCellNoChange]_vars

\* destroy_obstacle has been called and of the obstacles of the GameState
\* exactly one, a Destructible one, is left
C19_Witness ==
    /\ pc = "state"
    /\ call.op = "destroy_obstacle"
    /\ destructible_count = 1
    /\ Cardinality(DOMAIN obstacles) = 1

(***************************************************************************)
(* Properties of get_level_config                                           *)
(***************************************************************************)
\* the step is the call for a level whose predecessor, also beyond the
\* table, was configured just before
CallAfterGenerated ==
    /\ pc = "config"
    /\ pc' = "configured"
    /\ config.reward # "none"
    /\ level - 1 >= Len(BASE_LEVELS)

\* C15: for level indices beyond the two-entry table (level >= 2), the
\* obstacle_count (20 + level) and the block_hp (floor(10 * 1.2^(level - 1)))
\* get_level_config returns are both non-decreasing in the level index.
C15_ConfigMonotone ==
    [][CallAfterGenerated =>
          /\ config'.obstacle_count >= config.obstacle_count
          /\ config'.block_hp >= config.block_hp]_vars

(***************************************************************************)
(* Properties of main_run_level                                             *)
(***************************************************************************)
\* the damage the attacks of a sequence deal to the obstacle at cell c
RECURSIVE DamageTo(_, _)
DamageTo(as, c) ==
    IF as = <<>> THEN 0
    ELSE (IF Head(as).cell = c THEN Head(as).amount ELSE 0) + DamageTo(Tail(as), c)

\* what a tick does to the obstacle at c if damage is kept in the GameState
AccumulatesAt(c) ==
    LET left == obstacles[c].health - DamageTo(attacks', c)
    IN  IF DamageTo(attacks', c) = 0
        THEN c \in DOMAIN obstacles' /\ obstacles'[c] = obstacles[c]
        ELSE IF left <= 0 THEN c \notin DOMAIN obstacles'
        ELSE c \in DOMAIN obstacles' /\ obstacles'[c].health = left

\* C17: across the ticks of main_run_level the damage enemies deal to a
\* Destructible obstacle accumulates in its health in GameState.obstacles:
\* each attack lowers the stored health by the enemy's attack, and the
\* obstacle leaves the game state as soon as that health is <= 0.
C17_DamageAccumulates ==
    [][pc = "level" => \A c \in DOMAIN obstacles : AccumulatesAt(c)]_vars

(***************************************************************************)
(* Properties of main                                                       *)
(***************************************************************************)

\* C20: in every reachable state of the main level loop,
\* enemy_cards_collected holds only identifiers of CARD_POOL and holds none
\* twice, whatever level results and screen events occur.
C20_CardsFromPoolOnce ==
    /\ Range(enemy_cards_collected) \subseteq Range(CARD_POOL)
    /\ Injective(enemy_cards_collected)

\* main has returned
Exited == pc = "exited"

\* main_run_level is being run
LevelRunning == pc = "run"

\* C21: a quit event (SDL_QUIT) received on any screen of the game flow
\* (start menu, help, level run, fail screen, success screen, enemy
\* selection) leads to the main loop ending and the program terminating,
\* without another level being started.
C21_QuitEndsProgram ==
    /\ [](quit_seen => ~LevelRunning)
    /\ (quit_seen ~> Exited)

====
